---- MODULE Spec2Model ----
(***************************************************************************)
(* A model of src/src/tag_cards.py: the retry controller (tag_card_sync,   *)
(* tag_card_async, tag_cards_batch_sync), the three execution modes of     *)
(* main (sequential, asyncio with a semaphore, batch prompting) and the    *)
(* output files with resume and file splitting.  clean_json and the card   *)
(* filters (those of main and of src/filter_cards.py) are functions of     *)
(* their arguments and have specifications of their own, CleanSpec and     *)
(* FilterSpec; AsyncFairSpec is one run of async mode under fairness.      *)
(*                                                                         *)
(* A card is identified by its position in the filtered input list; its    *)
(* oracle_id is its unique key.  A response of the remote service is       *)
(* modelled by what json.loads(clean_json(content)) makes of it: an        *)
(* exception, a JSON object (with or without an oracle_id), a truthy value *)
(* that is no object (a non-empty array, a string, a number) or a falsy    *)
(* value ({}, [], 0, "", false, null).                                     *)
(***************************************************************************)
EXTENDS Integers, Sequences, FiniteSets, TLC

\* Bounds of the model: the cards of the largest input, the runs of the
\* program, the largest input the program is run on again, the largest
\* --split-size, --concurrency and --batch-size.
NumCards == 3
MaxRuns == 2
RerunCards == 2
MaxSplit == 2
MaxConcurrency == 2
MaxBatch == 2
\* The retries parameter of the three controllers (the program's default is 5).
retries == 3

Cards == 1..NumCards
NoId == 0

\* The unique key of a card.
oracle_id(c) == c

Min(a, b) == IF a < b THEN a ELSE b

\* ---------------------------------------------------------------- values

\* The sentinel "no result".
None == [kind |-> "none", oid |-> NoId]

\* An attempt that raises: the remote call fails, or the content does not
\* parse even after clean_json.
Exc == [kind |-> "exc", oid |-> NoId]

\* What a successful json.loads can return for one card: an object carrying
\* the card's own oracle_id, an object carrying no oracle_id, a truthy value
\* that is no object, a falsy value.
Values(c) ==
    {[kind |-> "obj", oid |-> oracle_id(c)], [kind |-> "obj", oid |-> NoId],
     [kind |-> "nonobj", oid |-> NoId], [kind |-> "falsy", oid |-> NoId]}

\* Python's truth test of a result (if tagged:, if result:, if r:).
Truthy(v) == v.kind \in {"obj", "nonobj"}

\* ------------------------------------------------------------ clean_json

\* A text is a sequence of characters.  The alphabet: the brackets and braces
\* of JSON, a digit, a comma, a blank and a letter of prose.
Chars == {"{", "}", "[", "]", "1", ",", " ", "x"}

\* The longest text clean_json is applied to.
MaxLen == 4

Texts == UNION {[1..n -> Chars] : n \in 0..MaxLen}

\* json.loads on this alphabet: a value is a number (digits), an empty object
\* or an array of values, with blanks allowed around every token.  The
\* operators return the position after what they read, 0 when they fail.
RECURSIVE SkipWs(_, _)
SkipWs(s, p) == IF p <= Len(s) /\ s[p] = " " THEN SkipWs(s, p + 1) ELSE p

RECURSIVE SkipDigits(_, _)
SkipDigits(s, p) == IF p <= Len(s) /\ s[p] = "1" THEN SkipDigits(s, p + 1) ELSE p

RECURSIVE ParseValue(_, _)
RECURSIVE ParseElements(_, _)
ParseValue(s, p) ==
    IF p > Len(s) THEN 0
    ELSE CASE s[p] = "1" -> SkipDigits(s, p)
           [] s[p] = "{" -> LET q == SkipWs(s, p + 1)
                            IN IF q <= Len(s) /\ s[q] = "}" THEN q + 1 ELSE 0
           [] s[p] = "[" -> LET q == SkipWs(s, p + 1)
                            IN IF q <= Len(s) /\ s[q] = "]" THEN q + 1
                               ELSE ParseElements(s, q)
           [] OTHER -> 0

ParseElements(s, p) ==
    LET r == ParseValue(s, p)
        q == SkipWs(s, r)
    IN IF r = 0 \/ q > Len(s) THEN 0
       ELSE IF s[q] = "," THEN ParseElements(s, SkipWs(s, q + 1))
       ELSE IF s[q] = "]" THEN q + 1
       ELSE 0

\* json.loads(s) returns, rather than raises.
Parses(s) ==
    LET r == ParseValue(s, SkipWs(s, 1))
    IN r # 0 /\ SkipWs(s, r) = Len(s) + 1

\* txt.strip()
strip(s) ==
    LET inked == {k \in 1..Len(s) : s[k] # " "}
    IN IF inked = {} THEN <<>>
       ELSE SubSeq(s, CHOOSE k \in inked : \A j \in inked : k <= j,
                      CHOOSE k \in inked : \A j \in inked : k >= j)

\* txt.find(ch): the lowest index, counted from 0, or -1.
find(s, ch) ==
    LET at == {k \in 1..Len(s) : s[k] = ch}
    IN IF at = {} THEN -1 ELSE (CHOOSE k \in at : \A j \in at : k <= j) - 1

\* txt[first:end]
Slice(s, first, end) == SubSeq(s, first + 1, end)

\* A faulty variant of the scan: the shortest snippet that parses is returned.
ScanShortest(txt, first, end) ==
    LET ok == {e \in (first + 1)..end : Parses(Slice(txt, first, e))}
    IN IF ok = {} THEN txt
       ELSE Slice(txt, first, CHOOSE e \in ok : \A j \in ok : e <= j)

\* for end in range(len(txt), first, -1): the first snippet txt[first:end]
\* that parses is returned, txt when none does.
RECURSIVE Scan(_, _, _)
Scan(txt, first, end) ==
    IF end <= first THEN txt
    ELSE IF Parses(Slice(txt, first, end)) THEN Slice(txt, first, end)
    ELSE Scan(txt, first, end - 1)

\* clean_json(txt).  Every json.loads is inside a try that catches Exception,
\* and strip and find do not raise on a str: no exception leaves the function.
clean_json(text) ==
    LET txt == strip(text)
        found == {k \in {find(txt, "{"), find(txt, "[")} : k # -1}
        first == IF found = {} THEN -1 ELSE CHOOSE k \in found : \A j \in found : k <= j
    IN [raised |-> FALSE,
        value |-> IF Parses(txt) THEN txt
                  ELSE IF first = -1 THEN txt
                  ELSE Scan(txt, first, Len(txt))]

\* --------------------------------------------------------------- filters

\* The choices of --colors.
Colors == {"W", "U", "B", "R", "G"}

\* What the filters read of a card: whether oracle_text is missing, empty or
\* a text, legalities.commander, and the set made of color_identity.
CardShapes ==
    [oracle_text : {"missing", "empty", "text"},
     commander : {"missing", "not_legal", "legal"},
     color_identity : SUBSET Colors]

\* A faulty variant of the text check: the key is there, whatever its value.
HasOracleTextKey(c) == c.oracle_text # "missing"

\* card.get('oracle_text') is truthy.
HasOracleText(c) == c.oracle_text = "text"

\* card.get('legalities', {}).get('commander') == 'legal'
CommanderLegal(c) == c.commander = "legal"

\* A faulty variant of the color filter: an identity within the target passes.
ColorMatchSubset(c, a) ==
    IF a.colors # {} \/ a.colorless
    THEN IF a.colorless /\ c.color_identity = {} THEN TRUE
         ELSE a.colors # {} /\ c.color_identity \subseteq a.colors
    ELSE TRUE

\* The color filter of main: it runs when --colors or --colorless is given,
\* target_colors being set(args.colors).
ColorMatch(c, a) ==
    IF a.colors # {} \/ a.colorless
    THEN IF a.colorless /\ c.color_identity = {} THEN TRUE
         ELSE a.colors # {} /\ c.color_identity = a.colors
    ELSE TRUE

\* The three filters of main, one after the other.
MainKeeps(c, a) ==
    /\ HasOracleText(c)
    /\ a.edh_only => CommanderLegal(c)
    /\ ColorMatch(c, a)

\* filter_cards.py: the combinations of B, W and R, and the filter.
get_color_combinations ==
    {{"B"}, {"W"}, {"R"}, {"B", "W"}, {"B", "R"}, {"W", "R"}, {"B", "W", "R"}}

filter_cards(c) ==
    /\ HasOracleText(c)
    /\ CommanderLegal(c)
    /\ c.color_identity \in get_color_combinations

\* ----------------------------------------------------------------- state

VARIABLES
    filtered,            \* the cards that passed the filters of main, in input order
    args,                \* the parsed command line (resume apart)
    resume,              \* args.resume of the current run
    run,                 \* number of the current run of the program
    phase,               \* where main is: "start", "running", "done", "crashed"
    files,               \* file name -> the lines of the file
    existing,            \* the names of the files that exist
    input_cards,         \* the processing set, after the resume filter
    i,                   \* cards taken by the sequential or batch loop
    pc,                  \* card -> position of its controller / task
    attempt,             \* card -> the loop variable of its controller
    result,              \* card -> what its controller returned
    resp,                \* card -> the outcome of its latest attempt
    nCalls,              \* card -> remote calls issued by its controller
    nFails,              \* card -> attempts of its controller that raised
    nDelays,             \* card -> backoff delays of its controller
    diag,                \* card -> attempt numbers reported on stderr for it
    batch_diag,          \* attempt numbers reported for the current chunk
    started,             \* card -> controller invocations in this run
    sem,                 \* free slots of the semaphore
    tagged_batch,        \* what tag_cards_batch_sync returned
    successful_count,
    current_file_index,
    current_file_count,
    content,             \* the text clean_json is called with
    cleaned,             \* what clean_json made of it
    card,                \* the card a filter is looking at
    kept                 \* what the filter decided

vars == <<filtered, args, resume, run, phase, files, existing, input_cards, i, pc,
          attempt, result, resp, nCalls, nFails, nDelays, diag, batch_diag,
          started, sem, tagged_batch, successful_count, current_file_index,
          current_file_count, content, cleaned, card, kept>>

\* The variables of the functions that are modelled on their own.
pure == <<content, cleaned, card, kept>>

frame == <<attempt, result, resp, nCalls, nFails, nDelays, diag>>
counters == <<successful_count, current_file_index, current_file_count>>
store == <<files, existing>>

\* The execution mode main selects.
Mode ==
    IF args.use_async THEN "async"
    ELSE IF args.batch_size > 0 THEN "batch"
    ELSE "sequential"

\* ----------------------------------------------------------------- files

\* The name of the output file of an index: 0 stands for the base path, n > 0
\* for the path with the suffix _part<n>.
get_output_filename(file_index) ==
    IF file_index = 0 THEN 0 ELSE file_index + 1

FileNames == {get_output_filename(k) : k \in 0..NumCards}

\* The line json.dumps writes for a value; src and run record the card and the
\* run the line was written for (0: for no card), and no action reads them.
LineOf(v, c) == [kind |-> v.kind, oid |-> v.oid, src |-> c, run |-> run]

\* A faulty variant of the split check: the file is left one record too late.
NeedSwitchLate == args.split_size > 0 /\ current_file_count > args.split_size

\* The split check ahead of a write.
NeedSwitch == args.split_size > 0 /\ current_file_count >= args.split_size

\* One successful result handed to the output: the split check, the append to
\* the current file, the counters.
WriteResult(v, c) ==
    LET idx == IF NeedSwitch THEN current_file_index + 1 ELSE current_file_index
        cnt == IF NeedSwitch THEN 0 ELSE current_file_count
        name == get_output_filename(idx)
    IN /\ current_file_index' = idx
       /\ files' = [files EXCEPT ![name] = Append(@, LineOf(v, c))]
       /\ existing' = existing \cup {name}
       /\ successful_count' = successful_count + 1
       /\ current_file_count' = cnt + 1

\* ------------------------------------------------------------------ main

\* A faulty variant of the scan: a line that cannot be used is skipped.
ScanRaisesNever(lines) == FALSE

\* The resume scan raises when a line does not parse or parses to a value
\* without a get method.
ScanRaises(lines) == \E k \in 1..Len(lines) : lines[k].kind # "obj"

\* The oracle_id of every line (NoId stands for the None of a missing key).
processed_oracle_ids(lines) == {lines[k].oid : k \in 1..Len(lines)}

\* The processing set left by the resume branch.
ResumeFilter(cards) ==
    IF resume /\ 0 \in existing /\ ~ScanRaises(files[0])
    THEN SelectSeq(cards, LAMBDA c : oracle_id(c) \notin processed_oracle_ids(files[0]))
    ELSE cards

\* main, from the resume branch to the start of the selected mode.
MainSetup ==
    /\ phase = "start"
    /\ phase' = "running"
    /\ input_cards' = ResumeFilter(filtered)
    /\ IF ~resume
       THEN /\ files' = [files EXCEPT ![0] = <<>>]
            /\ existing' = existing \cup {0}
       ELSE UNCHANGED store
    /\ sem' = IF args.use_async THEN args.concurrency ELSE sem
    /\ pc' = IF args.use_async
             THEN [c \in Cards |->
                     IF \E k \in 1..Len(input_cards') : input_cards'[k] = c
                     THEN "wait" ELSE "idle"]
             ELSE pc
    /\ UNCHANGED <<pure, filtered, args, resume, run, i, frame, batch_diag, started,
                   tagged_batch, counters>>

\* tagged_batch before a chunk has been answered.
NoBatch == [iter |-> TRUE, items |-> <<>>]

NoActive == \A c \in Cards : pc[c] \in {"idle", "done"}

\* A faulty variant of the loop bound: one attempt too many.
MoreAttemptsOffByOne(a) == a + 1 <= retries

\* for attempt in range(retries): after a failed attempt the loop goes on while
\* the next index is below retries.
MoreAttempts(a) == a + 1 < retries

\* ------------------------------------------------------------ sequential

\* A faulty variant of SeqStartCard: the next card is taken without waiting
\* for the card before it.
SeqStartCardEarly ==
    /\ phase = "running" /\ Mode = "sequential"
    /\ i < Len(input_cards)
    /\ LET c == input_cards[i + 1]
       IN /\ i' = i + 1
          /\ pc' = [pc EXCEPT ![c] = "call"]
          /\ attempt' = [attempt EXCEPT ![c] = 0]
          /\ nCalls' = [nCalls EXCEPT ![c] = 1]
          /\ started' = [started EXCEPT ![c] = @ + 1]
    /\ UNCHANGED <<pure, filtered, args, resume, run, phase, store, input_cards, result, resp,
                   nFails, nDelays, diag, batch_diag, sem, tagged_batch,
                   counters>>

\* The loop of main takes the next card and tag_card_sync issues its first call.
SeqStartCard ==
    /\ phase = "running" /\ Mode = "sequential"
    /\ NoActive
    /\ i < Len(input_cards)
    /\ LET c == input_cards[i + 1]
       IN /\ i' = i + 1
          /\ pc' = [pc EXCEPT ![c] = "call"]
          /\ attempt' = [attempt EXCEPT ![c] = 0]
          /\ nCalls' = [nCalls EXCEPT ![c] = 1]
          /\ started' = [started EXCEPT ![c] = @ + 1]
    /\ UNCHANGED <<pure, filtered, args, resume, run, phase, store, input_cards, result, resp,
                   nFails, nDelays, diag, batch_diag, sem, tagged_batch,
                   counters>>

\* An attempt of tag_card_sync raises: the warning, then backoff(attempt).
SyncAttemptFails(c) ==
    /\ phase = "running" /\ Mode = "sequential"
    /\ pc[c] = "call"
    /\ resp' = [resp EXCEPT ![c] = Exc]
    /\ nFails' = [nFails EXCEPT ![c] = @ + 1]
    /\ diag' = [diag EXCEPT ![c] = @ \cup {attempt[c] + 1}]
    /\ nDelays' = [nDelays EXCEPT ![c] = @ + 1]
    /\ pc' = [pc EXCEPT ![c] = "sleep"]
    /\ UNCHANGED <<pure, filtered, args, resume, run, phase, store, input_cards, i, attempt,
                   result, nCalls, batch_diag, started, sem, tagged_batch,
                   counters>>

\* An attempt of tag_card_sync returns json.loads(content).
SyncAttemptReturns(c, v) ==
    /\ phase = "running" /\ Mode = "sequential"
    /\ pc[c] = "call"
    /\ resp' = [resp EXCEPT ![c] = v]
    /\ result' = [result EXCEPT ![c] = v]
    /\ pc' = [pc EXCEPT ![c] = "ret"]
    /\ UNCHANGED <<pure, filtered, args, resume, run, phase, store, input_cards, i, attempt,
                   nCalls, nFails, nDelays, diag, batch_diag, started, sem,
                   tagged_batch, counters>>

\* The end of a backoff: the next iteration of the loop, or return None.
SyncBackoffEnds(c) ==
    /\ phase = "running" /\ Mode = "sequential"
    /\ pc[c] = "sleep"
    /\ attempt' = [attempt EXCEPT ![c] = @ + 1]
    /\ IF MoreAttempts(attempt[c])
       THEN /\ pc' = [pc EXCEPT ![c] = "call"]
            /\ nCalls' = [nCalls EXCEPT ![c] = @ + 1]
            /\ UNCHANGED result
       ELSE /\ pc' = [pc EXCEPT ![c] = "ret"]
            /\ result' = [result EXCEPT ![c] = None]
            /\ UNCHANGED nCalls
    /\ UNCHANGED <<pure, filtered, args, resume, run, phase, store, input_cards, i, resp,
                   nFails, nDelays, diag, batch_diag, started, sem,
                   tagged_batch, counters>>

\* The locals of a controller that has returned are gone.
ClearFrame(S) ==
    /\ attempt' = [c \in Cards |-> IF c \in S THEN 0 ELSE attempt[c]]
    /\ result' = [c \in Cards |-> IF c \in S THEN None ELSE result[c]]
    /\ resp' = [c \in Cards |-> IF c \in S THEN None ELSE resp[c]]
    /\ nCalls' = [c \in Cards |-> IF c \in S THEN 0 ELSE nCalls[c]]
    /\ nFails' = [c \in Cards |-> IF c \in S THEN 0 ELSE nFails[c]]
    /\ nDelays' = [c \in Cards |-> IF c \in S THEN 0 ELSE nDelays[c]]
    /\ diag' = [c \in Cards |-> IF c \in S THEN {} ELSE diag[c]]

\* main with the result of tag_card_sync: a truthy result is written.
SeqHandleResult(c) ==
    /\ phase = "running" /\ Mode = "sequential"
    /\ pc[c] = "ret"
    /\ IF Truthy(result[c])
       THEN WriteResult(result[c], c)
       ELSE UNCHANGED <<store, counters>>
    /\ pc' = [pc EXCEPT ![c] = "done"]
    /\ ClearFrame({c})
    /\ UNCHANGED <<pure, filtered, args, resume, run, phase, input_cards, i, batch_diag,
                   started, sem, tagged_batch>>

\* The loop of main is over.
SeqFinish ==
    /\ phase = "running" /\ Mode = "sequential"
    /\ NoActive
    /\ i = Len(input_cards)
    /\ phase' = "done"
    /\ UNCHANGED <<pure, filtered, args, resume, run, store, input_cards, i, pc, frame,
                   batch_diag, started, sem, tagged_batch, counters>>

\* ----------------------------------------------------------------- async

\* A faulty variant of the scheduling: a task is interrupted anywhere.
NoTaskMidTurnIgnored == TRUE

\* A task of safe_tag runs from one await to the next without interruption: a
\* task whose controller has returned is in the middle of its turn until it
\* has left the block of async with sem.
NoTaskMidTurn == \A c \in Cards : pc[c] \notin {"ret", "release"}

\* The tasks reach the semaphore in the order gather created them, and
\* asyncio.Semaphore wakes its waiters first come, first served.
FirstWaiter(c) == \A d \in Cards : pc[d] = "wait" => c <= d

\* A faulty variant of the gate: a slot is taken whether or not one is free.
CanAcquireAlways == TRUE

\* async with sem: a slot is taken only when one is free.
CanAcquire == sem > 0

\* A faulty variant of AsyncAcquire: a task that has finished is started again.
AsyncAcquireAgain(c) ==
    /\ phase = "running" /\ Mode = "async"
    /\ NoTaskMidTurn
    /\ pc[c] \in {"wait", "done"}
    /\ CanAcquire
    /\ sem' = sem - 1
    /\ pc' = [pc EXCEPT ![c] = "call"]
    /\ attempt' = [attempt EXCEPT ![c] = 0]
    /\ nCalls' = [nCalls EXCEPT ![c] = 1]
    /\ started' = [started EXCEPT ![c] = @ + 1]
    /\ UNCHANGED <<pure, filtered, args, resume, run, phase, store, input_cards, i,
                   result, resp, nFails, nDelays, diag, batch_diag,
                   tagged_batch, counters>>

\* safe_tag enters async with sem and tag_card_async issues its first call.
AsyncAcquire(c) ==
    /\ phase = "running" /\ Mode = "async"
    /\ NoTaskMidTurn
    /\ pc[c] = "wait"
    /\ FirstWaiter(c)
    /\ CanAcquire
    /\ sem' = sem - 1
    /\ pc' = [pc EXCEPT ![c] = "call"]
    /\ attempt' = [attempt EXCEPT ![c] = 0]
    /\ nCalls' = [nCalls EXCEPT ![c] = 1]
    /\ started' = [started EXCEPT ![c] = @ + 1]
    /\ UNCHANGED <<pure, filtered, args, resume, run, phase, store, input_cards, i, result,
                   resp, nFails, nDelays, diag, batch_diag, tagged_batch,
                   counters>>

\* An attempt of tag_card_async raises: the warning, then asyncio.sleep.
AsyncAttemptFails(c) ==
    /\ phase = "running" /\ Mode = "async"
    /\ NoTaskMidTurn
    /\ pc[c] = "call"
    /\ resp' = [resp EXCEPT ![c] = Exc]
    /\ nFails' = [nFails EXCEPT ![c] = @ + 1]
    /\ diag' = [diag EXCEPT ![c] = @ \cup {attempt[c] + 1}]
    /\ nDelays' = [nDelays EXCEPT ![c] = @ + 1]
    /\ pc' = [pc EXCEPT ![c] = "sleep"]
    /\ UNCHANGED <<pure, filtered, args, resume, run, phase, store, input_cards, i, attempt,
                   result, nCalls, batch_diag, started, sem, tagged_batch,
                   counters>>

\* An attempt of tag_card_async returns json.loads(content).
AsyncAttemptReturns(c, v) ==
    /\ phase = "running" /\ Mode = "async"
    /\ NoTaskMidTurn
    /\ pc[c] = "call"
    /\ resp' = [resp EXCEPT ![c] = v]
    /\ result' = [result EXCEPT ![c] = v]
    /\ pc' = [pc EXCEPT ![c] = "ret"]
    /\ UNCHANGED <<pure, filtered, args, resume, run, phase, store, input_cards, i, attempt,
                   nCalls, nFails, nDelays, diag, batch_diag, started, sem,
                   tagged_batch, counters>>

\* The end of asyncio.sleep: the next iteration of the loop, or return None.
AsyncSleepEnds(c) ==
    /\ phase = "running" /\ Mode = "async"
    /\ NoTaskMidTurn
    /\ pc[c] = "sleep"
    /\ attempt' = [attempt EXCEPT ![c] = @ + 1]
    /\ IF MoreAttempts(attempt[c])
       THEN /\ pc' = [pc EXCEPT ![c] = "call"]
            /\ nCalls' = [nCalls EXCEPT ![c] = @ + 1]
            /\ UNCHANGED result
       ELSE /\ pc' = [pc EXCEPT ![c] = "ret"]
            /\ result' = [result EXCEPT ![c] = None]
            /\ UNCHANGED nCalls
    /\ UNCHANGED <<pure, filtered, args, resume, run, phase, store, input_cards, i, resp,
                   nFails, nDelays, diag, batch_diag, started, sem,
                   tagged_batch, counters>>

\* A faulty variant of AsyncHandleResult: the slot is given back before the
\* result is written.
AsyncHandleResultReleased(c) ==
    /\ phase = "running" /\ Mode = "async"
    /\ pc[c] = "ret"
    /\ IF Truthy(result[c])
       THEN WriteResult(result[c], c)
       ELSE UNCHANGED <<store, counters>>
    /\ sem' = sem + 1
    /\ pc' = [pc EXCEPT ![c] = "done"]
    /\ ClearFrame({c})
    /\ UNCHANGED <<pure, filtered, args, resume, run, phase, input_cards, i, batch_diag,
                   started, tagged_batch>>

\* safe_tag with the result of tag_card_async, inside the block of async with
\* sem: a truthy result is written (split check, append, counters), then the
\* progress bar is updated.
AsyncHandleResult(c) ==
    /\ phase = "running" /\ Mode = "async"
    /\ pc[c] = "ret"
    /\ IF Truthy(result[c])
       THEN WriteResult(result[c], c)
       ELSE UNCHANGED <<store, counters>>
    /\ pc' = [pc EXCEPT ![c] = "release"]
    /\ ClearFrame({c})
    /\ UNCHANGED <<pure, filtered, args, resume, run, phase, input_cards, i, batch_diag,
                   started, sem, tagged_batch>>

\* A faulty variant of AsyncRelease: the slot of a card that was dropped is
\* not given back.
AsyncReleaseIfWritten(c) ==
    /\ phase = "running" /\ Mode = "async"
    /\ pc[c] = "release"
    /\ sem' = IF \E n \in FileNames : \E k \in 1..Len(files[n]) :
                    files[n][k].src = c /\ files[n][k].run = run
              THEN sem + 1 ELSE sem
    /\ pc' = [pc EXCEPT ![c] = "done"]
    /\ UNCHANGED <<pure, filtered, args, resume, run, phase, store, input_cards, i,
                   frame, batch_diag, started, tagged_batch, counters>>

\* safe_tag returns: the block of async with sem is left and the slot is
\* released; no await lies between the write and this.
AsyncRelease(c) ==
    /\ phase = "running" /\ Mode = "async"
    /\ pc[c] = "release"
    /\ sem' = sem + 1
    /\ pc' = [pc EXCEPT ![c] = "done"]
    /\ UNCHANGED <<pure, filtered, args, resume, run, phase, store, input_cards, i,
                   frame, batch_diag, started, tagged_batch, counters>>

\* asyncio.gather returns once every task has.
AsyncFinish ==
    /\ phase = "running" /\ Mode = "async"
    /\ NoActive
    /\ \A c \in Cards : pc[c] # "wait"
    /\ phase' = "done"
    /\ UNCHANGED <<pure, filtered, args, resume, run, store, input_cards, i, pc, frame,
                   batch_diag, started, sem, tagged_batch, counters>>

\* ----------------------------------------------------------------- batch

\* The cards of the chunk main is working on, in input order.
batch == SelectSeq(input_cards, LAMBDA c : pc[c] \in {"call", "sleep", "ret"})

InBatch == {batch[k] : k \in 1..Len(batch)}

\* What tag_cards_batch_sync can return for the chunk when an attempt does not
\* raise: arr when it is a list, else arr.get("results", []), which is a list
\* (given, or the default) or a value that cannot be iterated (null, a number).
\* A list may be shorter than the chunk or one element longer.  The element
\* for a card is an object with the card's oracle_id, a truthy value that is
\* no object or a falsy value; an element past the chunk is an object that
\* belongs to no card.
ItemsAt(k) ==
    IF k <= Len(batch)
    THEN Values(batch[k]) \ {[kind |-> "obj", oid |-> NoId]}
    ELSE {[kind |-> "obj", oid |-> NoId]}

RECURSIVE ItemLists(_, _)
ItemLists(k, n) ==
    IF k > n THEN {<<>>}
    ELSE {<<x>> \o t : x \in ItemsAt(k), t \in ItemLists(k + 1, n)}

BatchValues ==
    {[iter |-> FALSE, items |-> <<>>]} \cup
    {[iter |-> TRUE, items |-> s] :
        s \in UNION {ItemLists(1, n) : n \in 0..(Len(batch) + 1)}}

\* The loop of main takes the next chunk and tag_cards_batch_sync issues its
\* first call.
BatchStartChunk ==
    /\ phase = "running" /\ Mode = "batch"
    /\ NoActive
    /\ i < Len(input_cards)
    /\ LET last == Min(i + args.batch_size, Len(input_cards))
           chunk == {input_cards[k] : k \in (i + 1)..last}
       IN /\ i' = last
          /\ pc' = [c \in Cards |-> IF c \in chunk THEN "call" ELSE pc[c]]
          /\ attempt' = [c \in Cards |-> IF c \in chunk THEN 0 ELSE attempt[c]]
          /\ nCalls' = [c \in Cards |-> IF c \in chunk THEN 1 ELSE nCalls[c]]
          /\ started' = [c \in Cards |-> IF c \in chunk THEN started[c] + 1 ELSE started[c]]
    /\ batch_diag' = {}
    /\ UNCHANGED <<pure, filtered, args, resume, run, phase, store, input_cards, result, resp,
                   nFails, nDelays, diag, sem, tagged_batch, counters>>

\* An attempt of tag_cards_batch_sync raises (the call fails, the content does
\* not parse, or it parses to a value that is neither a list nor an object):
\* the warning, which names no card, then backoff(attempt).
BatchAttemptFails ==
    /\ phase = "running" /\ Mode = "batch"
    /\ \E c \in InBatch : pc[c] = "call"
    /\ resp' = [c \in Cards |-> IF c \in InBatch THEN Exc ELSE resp[c]]
    /\ nFails' = [c \in Cards |-> IF c \in InBatch THEN nFails[c] + 1 ELSE nFails[c]]
    /\ nDelays' = [c \in Cards |-> IF c \in InBatch THEN nDelays[c] + 1 ELSE nDelays[c]]
    /\ batch_diag' = batch_diag \cup {attempt[batch[1]] + 1}
    /\ pc' = [c \in Cards |-> IF c \in InBatch THEN "sleep" ELSE pc[c]]
    /\ UNCHANGED <<pure, filtered, args, resume, run, phase, store, input_cards, i, attempt,
                   result, nCalls, diag, started, sem, tagged_batch, counters>>

\* The element of a returned list that falls to the k-th card of the chunk.
ItemOf(b, k) == IF b.iter /\ k <= Len(b.items) THEN b.items[k] ELSE None

\* An attempt of tag_cards_batch_sync returns.
BatchAttemptReturns(b) ==
    /\ phase = "running" /\ Mode = "batch"
    /\ \E c \in InBatch : pc[c] = "call"
    /\ tagged_batch' = b
    /\ resp' = [c \in Cards |->
                  IF c \in InBatch
                  THEN ItemOf(b, CHOOSE k \in 1..Len(batch) : batch[k] = c)
                  ELSE resp[c]]
    /\ result' = [c \in Cards |->
                    IF c \in InBatch
                    THEN ItemOf(b, CHOOSE k \in 1..Len(batch) : batch[k] = c)
                    ELSE result[c]]
    /\ pc' = [c \in Cards |-> IF c \in InBatch THEN "ret" ELSE pc[c]]
    /\ UNCHANGED <<pure, filtered, args, resume, run, phase, store, input_cards, i, attempt,
                   nCalls, nFails, nDelays, diag, batch_diag, started, sem,
                   counters>>

\* A faulty variant of the value returned when every attempt failed: a bare
\* None, as the single-card controllers return.
AllNoneBare(n) == [iter |-> FALSE]

\* [None] * len(cards): what tag_cards_batch_sync returns when every attempt
\* failed.
AllNone(n) == [iter |-> TRUE, items |-> [k \in 1..n |-> None]]

\* The end of a backoff: the next iteration, or return [None]*len(cards).
BatchBackoffEnds ==
    /\ phase = "running" /\ Mode = "batch"
    /\ \E c \in InBatch : pc[c] = "sleep"
    /\ attempt' = [c \in Cards |-> IF c \in InBatch THEN attempt[c] + 1 ELSE attempt[c]]
    /\ IF MoreAttempts(attempt[batch[1]])
       THEN /\ pc' = [c \in Cards |-> IF c \in InBatch THEN "call" ELSE pc[c]]
            /\ nCalls' = [c \in Cards |-> IF c \in InBatch THEN nCalls[c] + 1 ELSE nCalls[c]]
            /\ UNCHANGED <<result, tagged_batch>>
       ELSE /\ pc' = [c \in Cards |-> IF c \in InBatch THEN "ret" ELSE pc[c]]
            /\ result' = [c \in Cards |-> IF c \in InBatch THEN None ELSE result[c]]
            /\ tagged_batch' = AllNone(Len(batch))
            /\ UNCHANGED nCalls
    /\ UNCHANGED <<pure, filtered, args, resume, run, phase, store, input_cards, i, resp,
                   nFails, nDelays, diag, batch_diag, started, sem, counters>>

\* The lines written for the truthy elements of a returned list, in order.
RECURSIVE BatchLines(_, _)
BatchLines(items, k) ==
    IF k > Len(items) THEN <<>>
    ELSE (IF Truthy(items[k])
          THEN <<LineOf(items[k], IF k <= Len(batch) THEN batch[k] ELSE 0)>>
          ELSE <<>>) \o BatchLines(items, k + 1)

\* main with the result of tag_cards_batch_sync: one split check for the chunk,
\* then every truthy element is written to the current file.  Iterating a
\* value that is no iterable raises TypeError, which nothing catches.
BatchHandleResult ==
    /\ phase = "running" /\ Mode = "batch"
    /\ \E c \in InBatch : pc[c] = "ret"
    /\ LET idx == IF NeedSwitch THEN current_file_index + 1 ELSE current_file_index
           cnt == IF NeedSwitch THEN 0 ELSE current_file_count
           name == get_output_filename(idx)
           lines == BatchLines(tagged_batch.items, 1)
       IN /\ current_file_index' = idx
          /\ existing' = existing \cup {name}
          /\ IF tagged_batch.iter
             THEN /\ files' = [files EXCEPT ![name] = @ \o lines]
                  /\ successful_count' = successful_count + Len(lines)
                  /\ current_file_count' = cnt + Len(lines)
                  /\ phase' = phase
             ELSE /\ files' = files
                  /\ successful_count' = successful_count
                  /\ current_file_count' = cnt
                  /\ phase' = "crashed"
    /\ pc' = [c \in Cards |-> IF c \in InBatch THEN "done" ELSE pc[c]]
    /\ ClearFrame(InBatch)
    /\ tagged_batch' = NoBatch
    /\ UNCHANGED <<pure, filtered, args, resume, run, input_cards, i, batch_diag, started, sem>>

\* The loop of main is over.
BatchFinish ==
    /\ phase = "running" /\ Mode = "batch"
    /\ NoActive
    /\ i = Len(input_cards)
    /\ phase' = "done"
    /\ UNCHANGED <<pure, filtered, args, resume, run, store, input_cards, i, pc, frame,
                   batch_diag, started, sem, tagged_batch, counters>>

\* ------------------------------------------------------------------ runs

\* The program is started again on the files the earlier run left.
NextRun ==
    /\ phase \in {"done", "crashed"}
    /\ run < MaxRuns
    /\ Len(filtered) <= RerunCards
    /\ run' = run + 1
    /\ resume' \in BOOLEAN
    /\ phase' = "start"
    /\ input_cards' = <<>>
    /\ i' = 0
    /\ pc' = [c \in Cards |-> "idle"]
    /\ ClearFrame(Cards)
    /\ batch_diag' = {}
    /\ started' = [c \in Cards |-> 0]
    /\ sem' = 0
    /\ tagged_batch' = NoBatch
    /\ successful_count' = 0
    /\ current_file_index' = 0
    /\ current_file_count' = 0
    /\ UNCHANGED <<pure, filtered, args, store>>

\* A line json.loads rejects: a write that was cut short, or an edit.
BadLine == [kind |-> "bad", oid |-> NoId, src |-> 0, run |-> 0]

\* Before the program is started again, the base file an earlier run left
\* gets a last line that does not parse.
OutputDamaged ==
    /\ phase = "start"
    /\ 0 \in existing
    /\ \A k \in 1..Len(files[0]) : files[0][k] # BadLine
    /\ files' = [files EXCEPT ![0] = Append(@, BadLine)]
    /\ UNCHANGED <<pure, filtered, args, resume, run, phase, existing, input_cards, i,
                   pc, frame, batch_diag, started, sem, tagged_batch, counters>>

Configs ==
    {a \in [use_async : BOOLEAN, batch_size : 0..MaxBatch,
            concurrency : 1..MaxConcurrency, split_size : 0..MaxSplit] :
        /\ a.use_async => a.batch_size = 0
        /\ ~a.use_async => a.concurrency = 1}

\* No call of clean_json is under way.
NoText == <<>>
NotCleaned == [pc |-> "idle", raised |-> FALSE, value |-> <<>>]

\* No filter is looking at a card.
NoCard == [oracle_text |-> "text", commander |-> "legal", color_identity |-> {}]
NotFiltered == [pc |-> "idle", by |-> "main", color |-> FALSE, keep |-> FALSE]

\* main before its first statement, for a given input and command line.
Fresh ==
    /\ resume = FALSE
    /\ run = 1
    /\ phase = "start"
    /\ files = [n \in FileNames |-> <<>>]
    /\ existing = {}
    /\ input_cards = <<>>
    /\ i = 0
    /\ pc = [c \in Cards |-> "idle"]
    /\ attempt = [c \in Cards |-> 0]
    /\ result = [c \in Cards |-> None]
    /\ resp = [c \in Cards |-> None]
    /\ nCalls = [c \in Cards |-> 0]
    /\ nFails = [c \in Cards |-> 0]
    /\ nDelays = [c \in Cards |-> 0]
    /\ diag = [c \in Cards |-> {}]
    /\ batch_diag = {}
    /\ started = [c \in Cards |-> 0]
    /\ sem = 0
    /\ tagged_batch = NoBatch
    /\ successful_count = 0
    /\ current_file_index = 0
    /\ current_file_count = 0

Init ==
    /\ filtered \in {[k \in 1..n |-> k] : n \in 1..NumCards}
    /\ args \in Configs
    /\ Fresh
    /\ content = NoText
    /\ cleaned = NotCleaned
    /\ card = NoCard
    /\ kept = NotFiltered

Next ==
    \/ MainSetup
    \/ SeqStartCard
    \/ \E c \in Cards : SyncAttemptFails(c)
    \/ \E c \in Cards : \E v \in Values(c) : SyncAttemptReturns(c, v)
    \/ \E c \in Cards : SyncBackoffEnds(c)
    \/ \E c \in Cards : SeqHandleResult(c)
    \/ SeqFinish
    \/ \E c \in Cards : AsyncAcquire(c)
    \/ \E c \in Cards : AsyncAttemptFails(c)
    \/ \E c \in Cards : \E v \in Values(c) : AsyncAttemptReturns(c, v)
    \/ \E c \in Cards : AsyncSleepEnds(c)
    \/ \E c \in Cards : AsyncHandleResult(c)
    \/ \E c \in Cards : AsyncRelease(c)
    \/ AsyncFinish
    \/ BatchStartChunk
    \/ BatchAttemptFails
    \/ \E b \in BatchValues : BatchAttemptReturns(b)
    \/ BatchBackoffEnds
    \/ BatchHandleResult
    \/ BatchFinish
    \/ NextRun
    \/ OutputDamaged

Spec == Init /\ [][Next]_vars

\* ------------------------------------- one run in async mode, scheduled fairly

AsyncInit == Init /\ args.use_async

\* The steps of the task of safe_tag for a card.
TaskStep(c) ==
    \/ AsyncAcquire(c)
    \/ AsyncAttemptFails(c)
    \/ \E v \in Values(c) : AsyncAttemptReturns(c, v)
    \/ AsyncSleepEnds(c)
    \/ AsyncHandleResult(c)
    \/ AsyncRelease(c)

AsyncNext ==
    \/ MainSetup
    \/ \E c \in Cards : TaskStep(c)
    \/ AsyncFinish

\* main runs to asyncio.run; the event loop runs every task that is ready, a
\* call that was issued returns or raises, a sleep ends, and gather returns
\* once every task has.
AsyncFairSpec ==
    /\ AsyncInit
    /\ [][AsyncNext]_vars
    /\ WF_vars(MainSetup)
    /\ \A c \in Cards : WF_vars(TaskStep(c))
    /\ WF_vars(AsyncFinish)

\* ------------------------------------------------- clean_json on its own

\* clean_json is called with a text the service answered.
CleanInit ==
    /\ filtered = <<1>>
    /\ args = [use_async |-> FALSE, batch_size |-> 0, concurrency |-> 1, split_size |-> 0]
    /\ Fresh
    /\ content \in Texts
    /\ cleaned = [NotCleaned EXCEPT !.pc = "call"]
    /\ card = NoCard
    /\ kept = NotFiltered

\* The call returns (or raises).
CleanJson ==
    /\ cleaned.pc = "call"
    /\ cleaned' = [pc |-> "ret", raised |-> clean_json(content).raised,
                   value |-> clean_json(content).value]
    /\ UNCHANGED <<content, card, kept, filtered, args, resume, run, phase, store,
                   input_cards, i, pc, frame, batch_diag, started, sem,
                   tagged_batch, counters>>

CleanNext == CleanJson

CleanSpec == CleanInit /\ [][CleanNext]_vars

\* ---------------------------------------------------- the filters on their own

\* The command lines that differ in the filter options.
FilterConfigs ==
    [use_async : {FALSE}, batch_size : {0}, concurrency : {1}, split_size : {0},
     edh_only : BOOLEAN, colors : SUBSET Colors, colorless : BOOLEAN]

\* A filter is about to look at a card of the input file.
FilterInit ==
    /\ filtered = <<1>>
    /\ args \in FilterConfigs
    /\ Fresh
    /\ content = NoText
    /\ cleaned = NotCleaned
    /\ card \in CardShapes
    /\ kept = [NotFiltered EXCEPT !.pc = "call"]

\* The filters of main decide on the card.
MainFilter ==
    /\ kept.pc = "call"
    /\ kept' = [pc |-> "ret", by |-> "main", color |-> ColorMatch(card, args),
                keep |-> MainKeeps(card, args)]
    /\ UNCHANGED <<content, cleaned, card, filtered, args, resume, run, phase, store,
                   input_cards, i, pc, frame, batch_diag, started, sem,
                   tagged_batch, counters>>

\* filter_cards.py decides on the card.
FilterCards ==
    /\ kept.pc = "call"
    /\ kept' = [pc |-> "ret", by |-> "filter_cards",
                color |-> card.color_identity \in get_color_combinations,
                keep |-> filter_cards(card)]
    /\ UNCHANGED <<content, cleaned, card, filtered, args, resume, run, phase, store,
                   input_cards, i, pc, frame, batch_diag, started, sem,
                   tagged_batch, counters>>

FilterNext == MainFilter \/ FilterCards

FilterSpec == FilterInit /\ [][FilterNext]_vars


\* ---------------------------------------------------------------- claims

\* The cards whose task holds a slot of the semaphore.
InFlight == {c \in Cards : pc[c] \in {"call", "sleep", "ret", "release"}}

\* The cards of the processing set.
Processing == {input_cards[k] : k \in 1..Len(input_cards)}

\* The records written in the current run, as <<file name, position>>.
RunRecords ==
    UNION {{<<n, k>> : k \in {j \in 1..Len(files[n]) : files[n][j].run = run}} :
           n \in FileNames}

\* The records the current run wrote to a file, and those it wrote for a card.
RunCount(n) == Cardinality({r \in RunRecords : r[1] = n})
RecordsOf(c) == Cardinality({r \in RunRecords : files[r[1]][r[2]].src = c})

\* C1: in bounded-concurrent mode the number of cards between the acquisition
\* and the release of a slot never exceeds the capacity of the gate, and the
\* free slots and the held slots add up to the capacity.
C1_GateBound ==
    (Mode = "async" /\ phase = "running") =>
        /\ Cardinality(InFlight) <= args.concurrency
        /\ sem + Cardinality(InFlight) = args.concurrency

\* C1 witness: the gate is full while a further card waits for a slot.
C1_Witness ==
    /\ Mode = "async"
    /\ args.concurrency = 2
    /\ Cardinality(InFlight) = 2
    /\ \E c \in Cards : pc[c] = "wait"

\* C2: when a controller returns after k < retries failed attempts and a
\* successful one, it returns the value of that attempt after exactly k + 1
\* calls and k backoff delays; when every attempt failed it has made exactly
\* retries calls and returns the sentinel (one None per card of a chunk); and
\* no controller ends with the program aborted.
C2_RetryController ==
    /\ \A c \in Cards : pc[c] = "ret" =>
          IF resp[c] # Exc
          THEN /\ nFails[c] < retries
               /\ nCalls[c] = nFails[c] + 1
               /\ nDelays[c] = nFails[c]
               /\ result[c] = resp[c]
          ELSE /\ nFails[c] = retries
               /\ nCalls[c] = retries
               /\ result[c] = None
               /\ Mode = "batch" =>
                     tagged_batch = [iter |-> TRUE, items |-> [k \in 1..Len(batch) |-> None]]
    /\ \A c \in Cards : pc[c] \in {"call", "sleep", "ret"} => phase = "running"

\* C2 witness: a controller returns a value after two failed attempts.
C2_Witness ==
    \E c \in Cards :
        /\ pc[c] = "ret"
        /\ nFails[c] = 2
        /\ nDelays[c] = 2
        /\ Truthy(result[c])

\* C3: every line written in the current run is a JSON object written for a
\* card that was attempted, and no card accounts for more than one line.
C3_LinesAreCardObjects ==
    \A r \in RunRecords :
        LET l == files[r[1]][r[2]]
        IN /\ l.kind = "obj"
           /\ l.src \in Cards
           /\ started[l.src] > 0
           /\ RecordsOf(l.src) <= 1

HasBadLine(lines) == \E k \in 1..Len(lines) : lines[k].kind = "bad"

\* Every card of the input was recorded by the first run with its own
\* oracle_id.
FirstRunRecordedAll ==
    \A k \in 1..Len(filtered) :
        \E n \in FileNames : \E j \in 1..Len(files[n]) :
            /\ files[n][j].run = 1
            /\ files[n][j].src = filtered[k]
            /\ files[n][j].kind = "obj"
            /\ files[n][j].oid = oracle_id(filtered[k])

\* C4: a second run with resume, after a first run that recorded every card
\* with its own oracle_id and on files nothing else has touched, issues no
\* remote call and appends no line.
C4_ResumeIdempotent ==
    (run = 2 /\ resume /\ FirstRunRecordedAll /\ ~HasBadLine(files[0])) =>
        /\ \A c \in Cards : started[c] = 0
        /\ RunRecords = {}

Max(a, b) == IF a > b THEN a ELSE b
CeilDiv(a, b) == (a + b - 1) \div b

\* C5: in sequential and bounded-concurrent mode, in a run without resume and
\* with split threshold N > 0, after k records have been written the file of
\* index i holds min(N, k - i*N) of them (none when k <= i*N), so ceil(k/N)
\* files have received records, and no card has a record in two places.
C5_SplitDistribution ==
    (Mode \in {"sequential", "async"} /\ args.split_size > 0 /\ ~resume
        /\ phase \in {"running", "done"}) =>
        LET N == args.split_size
            k == Cardinality(RunRecords)
        IN /\ k = successful_count
           /\ \A idx \in 0..NumCards :
                 RunCount(get_output_filename(idx)) = Max(0, Min(N, k - idx * N))
           /\ Cardinality({n \in FileNames : RunCount(n) > 0}) = CeilDiv(k, N)
           /\ \A c \in Cards : RecordsOf(c) <= 1

\* C5 witness: a run of three successful cards with threshold 2 has ended; the
\* base file received two records and the second file one.
C5_Witness ==
    /\ Mode = "async" /\ args.split_size = 2 /\ ~resume /\ phase = "done"
    /\ Cardinality(RunRecords) = 3
    /\ RunCount(get_output_filename(0)) = 2
    /\ RunCount(get_output_filename(1)) = 1

\* C6: with a positive split threshold N no file receives more than N records
\* in a run, in any mode, and the per-file count is the number of records the
\* run wrote to the current file.
C6_NoFileOverThreshold ==
    (args.split_size > 0 /\ phase \in {"running", "done"}) =>
        /\ \A n \in FileNames : RunCount(n) <= args.split_size
        /\ current_file_count = RunCount(get_output_filename(current_file_index))

\* C7: no run is aborted, and a run that has ended has attempted every card of
\* its processing set.
C7_RunCompletes ==
    /\ phase # "crashed"
    /\ phase = "done" => \A c \in Processing : started[c] >= 1

\* C8: when a card is finished without a record having been written for it, a
\* diagnostic naming the card and an attempt number has been emitted.
C8_DropsAreReported ==
    [][\A c \in Cards :
          (pc[c] = "ret" /\ pc'[c] \in {"release", "done"} /\ RecordsOf(c)' = 0)
              => diag[c] # {}]_vars

\* The oracle_ids recorded in a file.
RecordedIds(lines) ==
    {lines[k].oid : k \in {j \in 1..Len(lines) : lines[j].kind = "obj" /\ lines[j].oid # NoId}}

\* C9: when a run with resume finds the base file and every line of it parses,
\* the processing set is the filtered cards whose oracle_id is not recorded
\* in it.
C9_ResumeSkipSet ==
    [][(phase = "start" /\ phase' = "running" /\ resume /\ 0 \in existing
          /\ \A k \in 1..Len(files[0]) : files[0][k].kind # "bad") =>
        input_cards' = SelectSeq(filtered,
                          LAMBDA c : oracle_id(c) \notin RecordedIds(files[0]))]_vars

\* C10: in bounded-concurrent mode there is a task for exactly the cards of the
\* processing set, no card has its controller invoked twice or two records
\* written, a waiting card has neither, and only a card whose result has been
\* handled has a record.
C10_AtMostOnce ==
    (Mode = "async" /\ phase \in {"running", "done"}) =>
        \A c \in Cards :
            /\ (pc[c] # "idle") <=> (c \in Processing)
            /\ started[c] <= 1
            /\ RecordsOf(c) <= 1
            /\ pc[c] \in {"idle", "wait"} => (started[c] = 0 /\ RecordsOf(c) = 0)
            /\ RecordsOf(c) = 1 => pc[c] \in {"release", "done"}

\* C10 witness: a run of three cards has ended with three records, the first
\* of them written for the second card submitted.
C10_Witness ==
    /\ Mode = "async" /\ phase = "done" /\ run = 1
    /\ Cardinality(RunRecords) = 3
    /\ Len(files[0]) > 0
    /\ files[0][1].src = 2

\* C11: when the call for a chunk has failed on every attempt, the controller
\* has returned one None per card of the chunk, the handling of the result
\* writes no record and leaves the run going, and whenever the loop of batch
\* mode is between chunks with cards left, the next chunk can be started.
C11_FailedChunkIsSkipped ==
    /\ [][(Mode = "batch" /\ \E c \in InBatch : pc[c] = "ret" /\ resp[c] = Exc /\ pc'[c] = "done") =>
            /\ tagged_batch = [iter |-> TRUE, items |-> [k \in 1..Len(batch) |-> None]]
            /\ files' = files
            /\ successful_count' = successful_count
            /\ phase' = "running"
            /\ i' = i /\ input_cards' = input_cards]_vars
    /\ [](Mode = "batch" /\ phase = "running" /\ NoActive /\ i < Len(input_cards)
            => ENABLED BatchStartChunk)

\* C11 witness: the first chunk of a run failed on every attempt and has been
\* handled; nothing was written and a card is left for the next chunk.
C11_Witness ==
    /\ Mode = "batch" /\ phase = "running" /\ run = 1
    /\ NoActive
    /\ batch_diag = 1..retries
    /\ i > 0 /\ i < Len(input_cards)
    /\ RunRecords = {}

\* C12: in a run without resume, every line of the base file and of every
\* file the run has written to was written by that run.
C12_StoreIsFresh ==
    (~resume /\ phase \in {"running", "done"}) =>
        \A n \in FileNames :
            (n = get_output_filename(0) \/ RunCount(n) > 0) =>
                \A k \in 1..Len(files[n]) : files[n][k].run = run

\* t is s without its leading and trailing blanks.
IsTrimOf(t, s) ==
    /\ t # <<>> => t[1] # " " /\ t[Len(t)] # " "
    /\ \E a \in 0..Len(s) : \E b \in 0..Len(s) :
          /\ a + Len(t) + b = Len(s)
          /\ \A k \in 1..Len(s) :
                IF k <= a \/ k > a + Len(t) THEN s[k] = " " ELSE s[k] = t[k - a]

SubTexts(s) == {SubSeq(s, a, b) : a \in 1..(Len(s) + 1), b \in 0..Len(s)}

\* The position of the earliest "{" or "[" of t (0: there is none), and the
\* ends of the substrings of t that start there and parse as JSON.
EarliestOpen(t) ==
    LET at == {k \in 1..Len(t) : t[k] \in {"{", "["}}
    IN IF at = {} THEN 0 ELSE CHOOSE k \in at : \A j \in at : k <= j

ParsingEnds(t) ==
    IF EarliestOpen(t) = 0 THEN {}
    ELSE {e \in EarliestOpen(t)..Len(t) : Parses(SubSeq(t, EarliestOpen(t), e))}

LongestParsing(t) ==
    SubSeq(t, EarliestOpen(t), CHOOSE e \in ParsingEnds(t) : \A j \in ParsingEnds(t) : e >= j)

\* C13 as stated: clean_json does not raise; when the trimmed text parses it
\* returns the trimmed text; otherwise, when a substring starting at the
\* earliest "{" or "[" parses, the longest such substring; in every other
\* case the original text; so the result parses or is the input text.
C13_ReturnsOriginalText ==
    cleaned.pc = "ret" =>
        \A t \in SubTexts(content) : IsTrimOf(t, content) =>
            /\ ~cleaned.raised
            /\ Parses(t) => cleaned.value = t
            /\ (~Parses(t) /\ ParsingEnds(t) # {}) => cleaned.value = LongestParsing(t)
            /\ (~Parses(t) /\ ParsingEnds(t) = {}) => cleaned.value = content
            /\ Parses(cleaned.value) \/ cleaned.value = content

\* C13 amended: as above, but in every other case the result is the trimmed
\* text, so the result parses or is the input text without its leading and
\* trailing blanks.
C13_ReturnsTrimmedText ==
    cleaned.pc = "ret" =>
        \A t \in SubTexts(content) : IsTrimOf(t, content) =>
            /\ ~cleaned.raised
            /\ Parses(t) => cleaned.value = t
            /\ (~Parses(t) /\ ParsingEnds(t) # {}) => cleaned.value = LongestParsing(t)
            /\ (~Parses(t) /\ ParsingEnds(t) = {}) => cleaned.value = t
            /\ Parses(cleaned.value) \/ cleaned.value = t

\* C13 witness: a text with a blank to trim and a bracket from which nothing
\* parses has been cleaned to its trimmed form.
C13_Witness ==
    /\ cleaned.pc = "ret"
    /\ Len(content) = MaxLen
    /\ content[1] = " "
    /\ \E k \in 1..Len(content) : content[k] = "["
    /\ ~Parses(cleaned.value)
    /\ Len(cleaned.value) = Len(content) - 1

\* C14: with a non-empty target set of colors, a card passes the color filter
\* of main exactly when its color identity equals the target, or is empty
\* with --colorless given; a strict subset or superset of the target does not
\* pass, and a card main keeps has passed.  A card filter_cards.py keeps has
\* exactly one of its combinations as identity.
C14_ColorFilterExact ==
    /\ (kept.pc = "ret" /\ kept.by = "main" /\ args.colors # {}) =>
          /\ kept.color <=> \/ card.color_identity = args.colors
                            \/ card.color_identity = {} /\ args.colorless
          /\ (card.color_identity # {} /\ card.color_identity # args.colors
                /\ (card.color_identity \subseteq args.colors
                      \/ args.colors \subseteq card.color_identity)) => ~kept.color
          /\ kept.keep => kept.color
    /\ (kept.pc = "ret" /\ kept.by = "filter_cards" /\ kept.keep) =>
          \E T \in get_color_combinations : card.color_identity = T

\* C14 witness: with the target {W, U} and --colorless, main has kept a card
\* without color identity.
C14_Witness ==
    /\ kept.pc = "ret" /\ kept.by = "main"
    /\ args.colors = {"W", "U"} /\ args.colorless
    /\ card.color_identity = {}
    /\ kept.color /\ kept.keep

\* C15: a card whose oracle text is missing or empty is kept by no filter,
\* whatever its other fields and the filter options.
C15_NoTextIsExcluded ==
    (kept.pc = "ret" /\ card.oracle_text # "text") => ~kept.keep

\* C15 witness: main has dropped a legal card with an empty oracle text that
\* matches the color filter.
C15_Witness ==
    /\ kept.pc = "ret" /\ kept.by = "main"
    /\ card.oracle_text = "empty" /\ card.commander = "legal"
    /\ kept.color
    /\ ~kept.keep

IsPrefix(a, b) == Len(a) <= Len(b) /\ SubSeq(b, 1, Len(a)) = a

\* The lines a step appends, over all files.
Growth == Cardinality(RunRecords') - Cardinality(RunRecords)

\* C16: once a run is processing cards, every step leaves the earlier content
\* of every file as a prefix of the later content; in sequential and
\* bounded-concurrent mode a step appends at most one line, to one file, and
\* the counters are updated in the same step; and in bounded-concurrent mode a
\* task whose controller has returned is the only one to move until it has
\* written and released, so the writes of two tasks do not interleave.
C16_AppendOnly ==
    [][phase = "running" =>
        /\ \A n \in FileNames : IsPrefix(files[n], files'[n])
        /\ Mode \in {"sequential", "async"} =>
              /\ Growth \in {0, 1}
              /\ Cardinality({n \in FileNames : files'[n] # files[n]}) = Growth
              /\ successful_count' = successful_count + Growth
              /\ current_file_count' = RunCount(get_output_filename(current_file_index))'
        /\ Mode = "async" =>
              \A c \in Cards : pc[c] \in {"ret", "release"} =>
                  /\ pc'[c] = IF pc[c] = "ret" THEN "release" ELSE "done"
                  /\ \A d \in Cards \ {c} : pc'[d] = pc[d]]_vars

\* C16 witness: two tasks that held slots at the same time have written to the
\* same file, one line after the other, while a third card is under way.
C16_Witness ==
    /\ Mode = "async" /\ args.concurrency = 2 /\ run = 1
    /\ Len(files[0]) = 2
    /\ files[0][1].src = 2 /\ files[0][2].src = 1
    /\ pc[1] = "release"
    /\ pc[3] = "wait"

\* C17 as stated: in bounded-concurrent mode the record of a card is written
\* after the slot of the card has been released.
C17_WriteAfterRelease ==
    [][\A c \in Cards :
          (Mode = "async" /\ RecordsOf(c)' > RecordsOf(c)) => c \notin InFlight]_vars

\* C17 amended: the order per card is acquire, controller, write, release.  The
\* record is written while the card holds its slot, in a step that leaves the
\* semaphore alone; the slot is released by the next step of the card, which
\* writes nothing; and a slot is acquired only by a card without a record.
C17_WriteBeforeRelease ==
    [][Mode = "async" =>
        \A c \in Cards :
            /\ RecordsOf(c)' > RecordsOf(c) =>
                  /\ pc[c] = "ret" /\ pc'[c] = "release"
                  /\ c \in InFlight /\ c \in InFlight'
                  /\ sem' = sem
            /\ (c \in InFlight /\ c \notin InFlight') =>
                  /\ pc[c] = "release" /\ pc'[c] = "done"
                  /\ sem' = sem + 1
                  /\ files' = files
            /\ (c \notin InFlight /\ c \in InFlight') =>
                  /\ pc[c] = "wait" /\ pc'[c] = "call"
                  /\ sem' = sem - 1
                  /\ RecordsOf(c) = 0]_vars

\* C17 witness: the record of a card has been written, the card still holds
\* the only slot and another card waits for it.
C17_Witness ==
    /\ Mode = "async" /\ args.concurrency = 1
    /\ sem = 0
    /\ \E c \in Cards : pc[c] = "release" /\ RecordsOf(c) = 1
    /\ \E d \in Cards : pc[d] = "wait"

\* C18: when a run with resume finds a line in the base file that does not
\* parse, its setup removes no card (those recorded on the lines before the bad
\* one included), leaves the files alone and goes on to the selected mode; the
\* processing set of the run is the whole filtered input, and when the run has
\* ended every card of the filtered input has been attempted.
C18_CorruptResumeFile ==
    /\ [][(phase = "start" /\ phase' # "start" /\ resume /\ 0 \in existing
             /\ HasBadLine(files[0])) =>
            /\ phase' = "running"
            /\ input_cards' = filtered
            /\ files' = files]_vars
    /\ []((resume /\ phase \in {"running", "done"} /\ HasBadLine(files[0])) =>
            /\ input_cards = filtered
            /\ phase = "done" =>
                  \A k \in 1..Len(filtered) : started[filtered[k]] >= 1)

\* C18 witness: a run with resume on a base file whose first line records a
\* card and whose last line does not parse has ended, and that card has been
\* attempted again.
C18_Witness ==
    /\ resume /\ phase = "done" /\ run = 2
    /\ Len(files[0]) >= 2
    /\ files[0][1].kind = "obj" /\ files[0][1].run = 1
    /\ files[0][1].oid = oracle_id(1)
    /\ HasBadLine(files[0])
    /\ started[1] = 1

\* C19: a controller that is in a backoff delay has a further attempt ahead
\* (the failed attempt was not the last), the delay after the k-th call uses
\* the index k - 1, and a controller that has returned has made more calls
\* than delays.
C19_DelayOnlyBeforeRetry ==
    \A c \in Cards :
        /\ pc[c] = "sleep" =>
              /\ attempt[c] + 1 < retries
              /\ attempt[c] = nCalls[c] - 1
        /\ pc[c] = "ret" => nDelays[c] < nCalls[c]

\* C20: in one run of bounded-concurrent mode under fair scheduling no card has
\* more than retries calls issued or its controller invoked twice; every card
\* that was submitted ends up finished; every card that holds a slot gives it
\* back; and the run ends with every card of the processing set finished and
\* all slots free.
C20_AsyncTerminates ==
    /\ [](\A c \in Cards : nCalls[c] <= retries /\ started[c] <= 1)
    /\ \A c \in Cards : (pc[c] = "wait") ~> (pc[c] = "done")
    /\ \A c \in Cards : (c \in InFlight) ~> (c \notin InFlight)
    /\ (phase = "start") ~>
          (/\ phase = "done"
           /\ sem = args.concurrency
           /\ \A c \in Processing : pc[c] = "done")

\* C20 witness: a run of two cards with one slot has ended with the slot free;
\* the first card was dropped without a record and the second was recorded.
C20_Witness ==
    /\ Mode = "async" /\ phase = "done"
    /\ args.concurrency = 1 /\ sem = 1
    /\ Len(input_cards) = 2
    /\ started[1] = 1 /\ RecordsOf(1) = 0
    /\ RecordsOf(2) = 1

\* The position of a card in the processing set.
PosOf(c) == CHOOSE k \in 1..Len(input_cards) : input_cards[k] = c

\* A record comes before another in the output: in a file of lower index, or
\* earlier in the same file.
Before(r1, r2) == r1[1] < r2[1] \/ (r1[1] = r2[1] /\ r1[2] < r2[2])

\* C21: in sequential mode at most one card is under way, it is the i-th of the
\* processing set, every card before it is finished and no card after it has
\* been started or recorded; and the records of the run lie in the output in
\* the order of their cards in the input.
C21_SequentialInOrder ==
    (Mode = "sequential" /\ phase \in {"running", "done"}) =>
        /\ Cardinality({c \in Cards : pc[c] \in {"call", "sleep", "ret"}}) <= 1
        /\ \A k \in 1..Len(input_cards) :
              LET c == input_cards[k]
              IN /\ k < i => pc[c] = "done" /\ started[c] = 1
                 /\ k = i => pc[c] \in {"call", "sleep", "ret", "done"} /\ started[c] = 1
                 /\ k > i => pc[c] = "idle" /\ started[c] = 0 /\ RecordsOf(c) = 0
        /\ \A r1 \in RunRecords : \A r2 \in RunRecords :
              (r1 # r2 /\ Before(r1, r2)) =>
                  /\ files[r1[1]][r1[2]].src \in Processing
                  /\ files[r2[1]][r2[2]].src \in Processing
                  /\ PosOf(files[r1[1]][r1[2]].src) < PosOf(files[r2[1]][r2[2]].src)

\* C21 witness: a sequential run of three cards with threshold 1 has ended; the
\* first card is recorded in the base file, the second was dropped and the
\* third is recorded in the second file.
C21_Witness ==
    /\ Mode = "sequential" /\ phase = "done" /\ run = 1
    /\ args.split_size = 1
    /\ Len(input_cards) = 3
    /\ Len(files[get_output_filename(0)]) = 1
    /\ files[get_output_filename(0)][1].src = 1
    /\ RecordsOf(2) = 0
    /\ Len(files[get_output_filename(1)]) = 1
    /\ files[get_output_filename(1)][1].src = 3

====
